---- MODULE Spec2Model ----
(***************************************************************************)
(* Model of obspy_ext: the namespaced QuakeML export (anss/quakeml.py) and *)
(* the Antelope record adapters and wfdisc reader (antelope/core.py).      *)
(*                                                                         *)
(* Python values are modelled as tagged records, so that None, a dict, a   *)
(* list, a float timestamp and a UTCDateTime never compare equal by        *)
(* accident.  The code is Python 2 (quakeml.py:224 uses the builtin        *)
(* `file`, core.py:430 defines `next`); None orders before every number.   *)
(***************************************************************************)
EXTENDS Integers, Sequences, FiniteSets, TLC

VARIABLES
    wcall,      \* arguments of the last writeNamespaceQuakeML call
    wpc,        \* "idle" | "returned" | "raised"
    werr,       \* exception that left writeNamespaceQuakeML, or "none"
    wfile,      \* file opened by the adapter from a path: "none" | "open" | "closed"
    wsink,      \* sink handed in by the caller: "none" | "open" | "closed"
    wbuilt,     \* number of etree elements built by _serialize in the call
    xml_doc,    \* result of NamespacePickler().dumps: [kind |-> "doc", els] or NoDoc
    wwritten,   \* what fh.write received: a doc or NoDoc
    mcall,      \* arguments of the last XMLNamespace.map_prefix call
    mout,       \* its outcome: [err, d]
    wfdisc,     \* the wfdisc table of the database: a sequence of rows
    rcall,      \* arguments of the readANTELOPE call
    rpc,        \* "idle" | "loop" | "returned" | "raised"
    rerr,       \* exception that left readANTELOPE, or "none"
    db,         \* readANTELOPE's pointer: [rows (the view), record]
    ts,         \* readANTELOPE's ts
    te,         \* readANTELOPE's te
    reads,      \* the calls of read(fname, starttime, endtime) made so far
    st,         \* readANTELOPE's Stream: a sequence of traces
    table,      \* the table behind the caller's Dbptr: [name, pkey, fields, rows, bad]
    cursor,     \* record number of the caller's Dbptr, or dbALL
    eager,      \* outcomes of the Dbrecord(db) calls made so far: [at, err, rec, calls]
    lazy,       \* outcomes of the DbrecordPtr(db) calls made so far: [at, err, rec, calls]
    dbview,     \* outcome of the last Dbview(db) call: [at, err, list, dbv] or NoView
    dbviewptr,  \* outcome of the last DbviewPtr(db) call: [at, err, list, dbv] or NoView
    wrote,      \* the last `dbp[field] = value` on a DbrecordPtr: [record, field, value, err]
    dbptr,      \* the AttribDbptr object: [Ptr, _rptr]
    trav,       \* the traversals `for dbr in dbptr` started so far: [yielded, status]
    item        \* the last indexed access dbptr[index]: [index, err, rec] or NoItem

exportVars == <<wcall, wpc, werr, wfile, wsink, wbuilt, xml_doc, wwritten>>
mapVars == <<mcall, mout>>
readVars == <<wfdisc, rcall, rpc, rerr, db, ts, te, reads, st>>
recordVars == <<table, cursor, eager, lazy>>
recordPtrs == <<cursor, eager, lazy>>
viewVars == <<dbview, dbviewptr>>
writeVars == <<wrote>>
attribVars == <<dbptr, trav, item>>
vars == <<wcall, wpc, werr, wfile, wsink, wbuilt, xml_doc, wwritten, mcall, mout,
          wfdisc, rcall, rpc, rerr, db, ts, te, reads, st,
          table, cursor, eager, lazy, dbview, dbviewptr, wrote, dbptr, trav, item>>

(***************************************************************************)
(* Bounds of the model.                                                    *)
(***************************************************************************)
MaxEvents == 2      \* events in a catalog
MaxFocal == 1       \* focal mechanisms in an event
MaxOther == 1       \* children of every other kind in an event
MaxRows == 2        \* rows of the wfdisc table
MaxTraces == 2      \* traces read and selected from one waveform file
MaxBad == 1         \* <<record, field>> pairs the engine cannot extract
MaxRecords == 2     \* Dbrecord and DbrecordPtr objects constructed
MaxTraversals == 2  \* traversals of one AttribDbptr

(***************************************************************************)
(* Python dicts as functions.                                              *)
(***************************************************************************)
EmptyDict == [k \in {} |-> "x"]

DictDel(d, k) == [x \in (DOMAIN d) \ {k} |-> d[x]]

DictSet(d, k, v) == [x \in (DOMAIN d) \cup {k} |-> IF x = k THEN v ELSE d[x]]

\* dict.update(other)
DictUpdate(d, other) ==
    [x \in (DOMAIN d) \cup (DOMAIN other) |-> IF x \in DOMAIN other THEN other[x] ELSE d[x]]

Restrict(d, D) == [x \in D |-> d[x]]

(***************************************************************************)
(* XMLNamespace                                                            *)
(***************************************************************************)
DefaultNamespaceUri == "http://quakeml.org/xmlns/bed/1.2"

\* XMLNamespace.__init__: the ANSS defaults
DefaultNsmap ==
    [q |-> "http://quakeml.org/xmlns/quakeml/1.2",
     catalog |-> "http://anss.org/xmlns/catalog/0.1"]

Prefixes == DOMAIN DefaultNsmap

\* Attribute local names a configuration can list under a prefix.
PlainNames == {"datasource", "dataid"}

XMLNamespace(default, nsmap, prefix_map) ==
    [kind |-> "XMLNamespace", default |-> default, nsmap |-> nsmap,
     prefix_map |-> prefix_map]

\* XMLNamespace._prefix: '{{{ns}}}{tag}'.format(ns=self.nsmap[prefix], tag=key)
_prefix(ns, key, prefix) == "{" \o ns.nsmap[prefix] \o "}" \o key

Ok(d) == [err |-> "none", d |-> d]
Raised(e) == [err |-> e, d |-> EmptyDict]

\* map_prefix_step that copies the value under the qualified key and leaves the
\* bare entry in place (name[a] instead of name.pop(a)).
map_prefix_step_keep(ns, a, k, name) ==
    IF a \notin ns.prefix_map[k] THEN name
    ELSE IF a \notin DOMAIN name.d THEN Raised("KeyError")
    ELSE IF k \notin DOMAIN ns.nsmap THEN Raised("KeyError")
    ELSE Ok(DictSet(name.d, _prefix(ns, a, k), name.d[a]))

\* One pass of `if a in self.prefix_map[k]: name[self._prefix(a,k)] = name.pop(a)`.
\* Python evaluates the right-hand side first: name.pop(a), then self._prefix.
map_prefix_step(ns, a, k, name) ==
    IF a \notin ns.prefix_map[k] THEN name
    ELSE IF a \notin DOMAIN name.d THEN Raised("KeyError")
    ELSE IF k \notin DOMAIN ns.nsmap THEN Raised("KeyError")
    ELSE Ok(DictSet(DictDel(name.d, a), _prefix(ns, a, k), name.d[a]))

\* `for k in self.prefix_map.keys()` for one attribute name a
RECURSIVE map_prefix_keys(_, _, _, _)
map_prefix_keys(ns, a, ks, name) ==
    IF ks = {} \/ name.err # "none" THEN name
    ELSE LET k == CHOOSE x \in ks : TRUE
         IN map_prefix_keys(ns, a, ks \ {k}, map_prefix_step(ns, a, k, name))

\* `for a in attributes` (the caller's dict; `name` is the copy being rewritten)
RECURSIVE map_prefix_loop(_, _, _)
map_prefix_loop(ns, as, name) ==
    IF as = {} \/ name.err # "none" THEN name
    ELSE LET a == CHOOSE x \in as : TRUE
         IN map_prefix_loop(ns, as \ {a},
                            map_prefix_keys(ns, a, DOMAIN ns.prefix_map, name))

\* XMLNamespace.map_prefix.  `name` is bound only when attributes is a dict;
\* for anything else the first use of `name` raises UnboundLocalError.
map_prefix(ns, attributes) ==
    IF attributes.kind # "dict" THEN Raised("UnboundLocalError")
    ELSE map_prefix_loop(ns, DOMAIN attributes.d, Ok(attributes.d))

(***************************************************************************)
(* Catalogs handed to the export.  An event is given by its resource id,   *)
(* the ids of its focal mechanisms and the number of children it has of    *)
(* every other kind; the catalog has as many description, comment and      *)
(* creation-info children of its own.                                      *)
(***************************************************************************)
EventId(i) == "smi:local/event/" \o ToString(i)

FocalId(i, j) == "smi:local/focalmechanism/" \o ToString(i) \o "." \o ToString(j)

MkEvent(i, nfocal, nother) ==
    [resource_id |-> EventId(i),
     focal_mechanisms |-> [j \in 1..nfocal |-> FocalId(i, j)],
     nother |-> nother]

Catalogs ==
    {[resource_id |-> "smi:local/catalog", nother |-> c,
      events |-> [i \in 1..n |-> MkEvent(i, nfocal[i], c)]] :
        c \in 0..MaxOther, n \in 0..MaxEvents, nfocal \in [1..MaxEvents -> 0..MaxFocal]}

(***************************************************************************)
(* NamespacePickler._serialize.  The tree is kept in document order as a   *)
(* sequence of elements [tag, attrib].                                     *)
(***************************************************************************)
El(tag, attrib) == [tag |-> tag, attrib |-> attrib]

Rep(n, el) == [i \in 1..n |-> el]

RECURSIVE Flatten(_)
Flatten(ss) == IF ss = <<>> THEN <<>> ELSE Head(ss) \o Flatten(Tail(ss))

\* Pickler._id: the QuakeML URI of a resource identifier
_id(resource_id) == resource_id

\* Pickler._focal_mechanism(focal_mechanism): the standard element
_focal_mechanism(fm) == El("focalMechanism", [publicID |-> _id(fm)])

\* focal_mech_el without `focal_mech_el.attrib.update(ns_attr)`
focal_mech_el_plain(fm, ns_attr) == _focal_mechanism(fm)

\* Loop body of `for focal_mechanism in event.focal_mechanisms`
focal_mech_el(fm, ns_attr) ==
    LET el == _focal_mechanism(fm)
    IN El(el.tag, DictUpdate(el.attrib, ns_attr))

\* Children of an event other than focal mechanisms, in the order they are appended
event_children(event) ==
    LET n == event.nother
        pid == [publicID |-> event.resource_id \o "/child"]
    IN  (IF n > 0 THEN <<El("preferredOriginID", EmptyDict),
                          El("preferredMagnitudeID", EmptyDict),
                          El("type", EmptyDict)>> ELSE <<>>)
        \o Rep(n, El("description", EmptyDict))
        \o Rep(n, El("comment", EmptyDict))
        \o (IF n > 0 THEN <<El("creationInfo", EmptyDict)>> ELSE <<>>)
        \o Rep(n, El("origin", pid))
        \o Rep(n, El("magnitude", pid))
        \o Rep(n, El("stationMagnitude", pid))
        \o Rep(n, El("pick", pid))

\* Loop body of `for event in catalog`
event_els(event, ns_attr) ==
    LET event_el == El("event", DictUpdate([publicID |-> _id(event.resource_id)], ns_attr))
    IN  <<event_el>> \o event_children(event)
        \o [j \in 1..Len(event.focal_mechanisms) |->
                focal_mech_el(event.focal_mechanisms[j], ns_attr)]

\* Outcome of the namespace block of _serialize (quakeml.py:121-133):
\* [err, default, nsmap, root_space, ns_attr]
serialize_namespace(namespace, attributes) ==
    LET plain == [err |-> "none", default |-> DefaultNamespaceUri, nsmap |-> EmptyDict,
                  root_space |-> DefaultNsmap["q"], ns_attr |-> EmptyDict]
    IN  IF namespace.kind # "XMLNamespace" THEN plain
        ELSE IF "q" \notin DOMAIN namespace.nsmap
             THEN [plain EXCEPT !.err = "KeyError"]
        ELSE LET m == IF attributes.kind # "absent"
                      THEN map_prefix(namespace, attributes) ELSE Ok(EmptyDict)
             IN  [err |-> m.err, default |-> namespace.default, nsmap |-> namespace.nsmap,
                  root_space |-> namespace.nsmap["q"], ns_attr |-> m.d]

NoDoc == [kind |-> "none"]

\* NamespacePickler._serialize / dumps: [err, doc, built]
_serialize(catalog, namespace, attributes) ==
    LET n == serialize_namespace(namespace, attributes)
        root_el == El("{" \o n.root_space \o "}quakeml", [xmlns |-> n.default])
        catalog_el == El("eventParameters", [publicID |-> _id(catalog.resource_id)])
        catalog_children ==
            Rep(catalog.nother, El("description", EmptyDict))
            \o Rep(catalog.nother, El("comment", EmptyDict))
            \o (IF catalog.nother > 0 THEN <<El("creationInfo", EmptyDict)>> ELSE <<>>)
        els == <<root_el, catalog_el>> \o catalog_children
               \o Flatten([i \in 1..Len(catalog.events) |->
                              event_els(catalog.events[i], n.ns_attr)])
    IN  IF n.err # "none"
        THEN [err |-> n.err, doc |-> NoDoc, built |-> 0]
        ELSE [err |-> "none",
              doc |-> [kind |-> "doc", nsmap |-> n.nsmap, els |-> els],
              built |-> Len(els)]

(***************************************************************************)
(* writeNamespaceQuakeML.  A call keeps nothing from one call to the next, *)
(* so the model follows one call from the idle state.                      *)
(***************************************************************************)
\* Destinations: a path string, an open file object, or any other open
\* object with a write method (a StringIO).
Filenames == {[kind |-> "path"], [kind |-> "file"], [kind |-> "stream"]}

\* quakeml.py:216 `not hasattr(filename, 'write')`
opens_file(filename) == filename.kind = "path"

\* State of the handle fh when the call is left: it is open from line 217/219
\* on, and lines 222-225 run only when dumps and write returned.
fh_at_exit(dumpsOk, writeOk) ==
    IF dumpsOk /\ writeOk THEN "closed" ELSE "open"

writeNamespaceQuakeML(catalog, filename, namespace, attributes, writeOk) ==
    LET r == _serialize(catalog, namespace, attributes)
        dumpsOk == r.err = "none"
        fh == fh_at_exit(dumpsOk, writeOk)
        err == IF ~dumpsOk THEN r.err ELSE IF ~writeOk THEN "IOError" ELSE "none"
    IN  /\ wcall' = [catalog |-> catalog, filename |-> filename,
                     namespace |-> namespace, attributes |-> attributes,
                     writeOk |-> writeOk]
        /\ xml_doc' = r.doc
        /\ wbuilt' = r.built
        /\ wwritten' = IF dumpsOk /\ writeOk THEN r.doc ELSE NoDoc
        /\ werr' = err
        /\ wpc' = IF err = "none" THEN "returned" ELSE "raised"
        /\ wfile' = IF opens_file(filename) THEN fh ELSE "none"
        /\ wsink' = IF opens_file(filename) THEN "none" ELSE fh

(***************************************************************************)
(* Inputs of the export.                                                   *)
(***************************************************************************)
AttrValue == [datasource |-> "XX", dataid |-> "999999", publicID |-> "bogus"]

Absent == [kind |-> "absent"]

Dict(d) == [kind |-> "dict", d |-> d]

ExportPrefixMaps ==
    {[catalog |-> PlainNames],
     [catalog |-> {"datasource"}],
     [catalog |-> {"datasource"}, q |-> {"datasource"}]}

ExportNamespaces ==
    {Absent, [kind |-> "dict"]}
    \cup {XMLNamespace(DefaultNamespaceUri, Restrict(DefaultNsmap, D), pm) :
            D \in {{"q", "catalog"}, {"q"}, {"catalog"}}, pm \in ExportPrefixMaps}

ExportBags ==
    {Absent, [kind |-> "list"]}
    \cup {Dict(Restrict(AttrValue, D)) : D \in SUBSET (DOMAIN AttrValue)}

ExportInit ==
    /\ wcall = [kind |-> "none"]
    /\ wpc = "idle"
    /\ werr = "none"
    /\ wfile = "none"
    /\ wsink = "none"
    /\ wbuilt = 0
    /\ xml_doc = NoDoc
    /\ wwritten = NoDoc

(***************************************************************************)
(* Calls of XMLNamespace.map_prefix on its own.  A bag key is a local name *)
(* or a name already in '{uri}name' form, which etree accepts as well.     *)
(***************************************************************************)
QualifiedKey == "{" \o DefaultNsmap["catalog"] \o "}datasource"

MapBagKeys == PlainNames \cup {"publicID", QualifiedKey}

MapBagValues == {"XX", "YY"}

MapBags ==
    {[kind |-> "list"]}
    \cup UNION {{Dict(d) : d \in [D -> MapBagValues]} : D \in SUBSET MapBagKeys}

MapPrefixMaps == UNION {[D -> SUBSET PlainNames] : D \in SUBSET Prefixes}

MapNamespaces ==
    {XMLNamespace(DefaultNamespaceUri, Restrict(DefaultNsmap, D), pm) :
        D \in SUBSET Prefixes, pm \in MapPrefixMaps}

map_prefix_call(ns, attributes) ==
    /\ mcall' = [kind |-> "call", ns |-> ns, attributes |-> attributes]
    /\ mout' = map_prefix(ns, attributes)

MapInit ==
    /\ mcall = [kind |-> "none"]
    /\ mout = Ok(EmptyDict)

(***************************************************************************)
(* Python values.  Times are floats of epoch seconds; the model counts     *)
(* them in milliseconds from a fixed epoch second.                         *)
(***************************************************************************)
None == [kind |-> "None"]

PyVal(v) == [kind |-> "val", v |-> v]

\* obspy UTCDateTime(timestamp)
UTCDateTime(t) == [kind |-> "UTCDateTime", timestamp |-> t]

\* Number behind a float or a UTCDateTime in a comparison
Num(x) == IF x.kind = "UTCDateTime" THEN x.timestamp ELSE x.v

\* Python 2 `a < b`: None orders before every other object.
py_lt(a, b) ==
    IF a.kind = "None" THEN b.kind # "None"
    ELSE IF b.kind = "None" THEN FALSE
    ELSE Num(a) < Num(b)

\* Python 2 `a > b`
py_gt(a, b) == py_lt(b, a)

\* Milliseconds kept by '{0}'.format(x) of a float x: str(x), which is '%.12g';
\* an epoch timestamp has ten digits before the point, so two decimals remain.
StrFloatGrain == 10

\* '{0}'.format(x) read back as the number the engine compares with
str_float(x) == StrFloatGrain * ((x + (StrFloatGrain \div 2)) \div StrFloatGrain)

(***************************************************************************)
(* The Datascope engine: a table is a sequence of rows, a row a function   *)
(* from field names to values; record numbers start at 0.                  *)
(***************************************************************************)
\* antelope.datascope.dbALL
dbALL == -501

Range(f) == {f[i] : i \in DOMAIN f}

\* Dbptr.getv(field)[0] at record number `record` of table tbl; `bad` holds the
\* <<record, field>> pairs whose value dbgetv cannot extract.
getv(tbl, record, field) ==
    IF record \in 0..(Len(tbl.rows) - 1) /\ <<record, field>> \notin tbl.bad
    THEN [err |-> "none", val |-> PyVal(tbl.rows[record + 1][field])]
    ELSE [err |-> "ElogComplain", val |-> None]

\* The loop body without its try/except: the engine's error leaves the constructor
field_value_uncaught(tbl, record, field_name) == getv(tbl, record, field_name)

\* Loop body of Dbrecord.__init__ (core.py:155-158): try getv, except: None
field_value(tbl, record, field_name) ==
    LET r == getv(tbl, record, field_name)
    IN  IF r.err = "none" THEN r ELSE [err |-> "none", val |-> None]

\* Dbrecord(db) for a pointer at `record` of tbl: [err, rec]
Dbrecord(tbl, record) ==
    LET got == [f \in Range(tbl.fields) |-> field_value(tbl, record, f)]
        failed == {f \in Range(tbl.fields) : got[f].err # "none"}
    IN  IF record = dbALL
        THEN [err |-> "ValueError", rec |-> None]
        ELSE IF failed # {}
        THEN [err |-> got[CHOOSE f \in failed : TRUE].err, rec |-> None]
        ELSE [err |-> "none",
              rec |-> [Ptr |-> record,
                       Table |-> tbl.name,
                       PrimaryKey |-> tbl.pkey,
                       _fields_unsorted |-> tbl.fields,
                       items |-> [f \in Range(tbl.fields) |-> got[f].val]]]

\* The engine calls Dbrecord.__init__ would issue if it tested dbALL after its
\* queries
Dbrecord_calls_late(tbl, record) ==
    <<"query", "query", "query">> \o
    (IF record = dbALL THEN <<>> ELSE [i \in 1..Len(tbl.fields) |-> "getv"])

\* The calls Dbrecord.__init__ issues to the engine, in order (core.py:145-156):
\* none when the record number is dbALL, else three queries and one getv per
\* field
Dbrecord_calls(tbl, record) ==
    IF record = dbALL
    THEN <<>>
    ELSE <<"query", "query", "query">> \o [i \in 1..Len(tbl.fields) |-> "getv"]

\* DbrecordPtr(db) for a pointer at `record`: [err, rec].  The object is a dict
\* (`items`, never filled by the constructor) with one attribute, a copy of
\* the pointer.
DbrecordPtr(record) ==
    IF record = dbALL
    THEN [err |-> "ValueError", rec |-> None]
    ELSE [err |-> "none", rec |-> [Ptr |-> record, items |-> EmptyDict]]

\* The calls DbrecordPtr.__init__ issues to the engine (core.py:224-227): none
DbrecordPtr_calls(record) == <<>>

\* DbrecordPtr.__getattr__(field), also its __getitem__: asks the engine at
\* the record's own pointer, and lets the engine's error out
__getattr__(tbl, rec, field) == getv(tbl, rec.Ptr, field)

\* Reading a field of a Dbrecord, as attribute or key (core.py:113): the value
\* the constructor stored
Dbrecord_getitem(rec, field) == [err |-> "none", val |-> rec.items[field]]

\* Dbptr.putv(field, value) at record number `record` of tbl: [err, tbl].  The
\* engine refuses what it cannot read.
putv(tbl, record, field, value) ==
    IF getv(tbl, record, field).err = "none"
    THEN [err |-> "none", tbl |-> [tbl EXCEPT !.rows[record + 1][field] = value]]
    ELSE [err |-> "ElogComplain", tbl |-> tbl]

\* A __setattr__ that keeps the value in the object instead of the database
__setattr__dict(tbl, rec, field, value) ==
    IF field = "Ptr"
    THEN [err |-> "none", tbl |-> tbl, rec |-> [rec EXCEPT !.Ptr = value]]
    ELSE [err |-> "none", tbl |-> tbl,
          rec |-> [rec EXCEPT !.items = DictSet(rec.items, field, value)]]

\* DbrecordPtr.__setattr__(field, value), also its __setitem__ (core.py:238-254):
\* 'Ptr' replaces the pointer, any other name is written to the database
__setattr__(tbl, rec, field, value) ==
    IF field = "Ptr"
    THEN [err |-> "none", tbl |-> tbl, rec |-> [rec EXCEPT !.Ptr = value]]
    ELSE LET r == putv(tbl, rec.Ptr, field, value)
         IN  [err |-> r.err, tbl |-> r.tbl, rec |-> rec]

NoWrite == [kind |-> "none"]

\* Dbptr.nrecs()
nrecs(tbl) == Len(tbl.rows)

\* Where the pointer moved by `for db.record in range(n)` is after the loop
loop_record(record, n) == IF n > 0 THEN n - 1 ELSE record

NoView == [kind |-> "none"]

\* The outcome of a list of constructor calls: the first error leaves the
\* comprehension
view_outcome(rs, record) ==
    LET failed == {i \in 1..Len(rs) : rs[i].err # "none"}
    IN  IF failed # {}
        THEN [err |-> rs[CHOOSE i \in failed : \A j \in failed : i <= j].err,
              list |-> <<>>, dbv |-> record]
        ELSE [err |-> "none", list |-> [i \in 1..Len(rs) |-> rs[i].rec], dbv |-> record]

\* Dbview(dbv) iterating with the caller's pointer itself instead of a copy
Dbview_shared(tbl, record) ==
    view_outcome([i \in 1..nrecs(tbl) |-> Dbrecord(tbl, i - 1)],
                 loop_record(record, nrecs(tbl)))

\* Dbview(dbv) for the caller's pointer at `record` of tbl (core.py:309-310):
\* the loop moves the copy `db`, so the caller's pointer stays at `record`
Dbview(tbl, record) ==
    view_outcome([i \in 1..nrecs(tbl) |-> Dbrecord(tbl, i - 1)], record)

\* DbviewPtr(dbv) (core.py:345-346): every DbrecordPtr copies `db` as it is at
\* its turn of the loop
DbviewPtr(tbl, record) ==
    view_outcome([i \in 1..nrecs(tbl) |-> DbrecordPtr(i - 1)], record)

\* AttribDbptr(dbv) for the caller's pointer at `record` (core.py:396-408): a
\* copy of the pointer, and the class's _rptr
AttribDbptr(record) == [Ptr |-> record, _rptr |-> -1]

NoItem == [kind |-> "none"]

\* An indexed access that moves the object's own position to the row asked for
__getitem__moving(self, tbl, index) ==
    IF 0 <= index /\ index < nrecs(tbl)
    THEN LET r == DbrecordPtr(index)
         IN  [err |-> r.err, rec |-> r.rec, self |-> [self EXCEPT !._rptr = index]]
    ELSE [err |-> "ValueError", rec |-> None, self |-> self]

\* AttribDbptr.__getitem__(index) (core.py:411-420): [err, rec, self]; the
\* record is built on a copy of self.Ptr set to `index`
__getitem__(self, tbl, index) ==
    IF 0 <= index /\ index < nrecs(tbl)
    THEN LET r == DbrecordPtr(index)
         IN  [err |-> r.err, rec |-> r.rec, self |-> self]
    ELSE [err |-> "ValueError", rec |-> None, self |-> self]

\* AttribDbptr.next() (core.py:430-437): [err, rec, self]
next(self, tbl) ==
    LET moved == [self EXCEPT !._rptr = self._rptr + 1]
    IN  IF moved._rptr < nrecs(tbl)
        THEN __getitem__(moved, tbl, moved._rptr)
        ELSE [err |-> "StopIteration", rec |-> None,
              self |-> [moved EXCEPT !._rptr = -1]]

(***************************************************************************)
(* readANTELOPE                                                            *)
(***************************************************************************)
WfdiscFields == <<"sta", "chan", "time", "endtime">>

\* A view of wfdisc rows as the engine's table
WfdiscView(rows) ==
    [name |-> "wfdisc", pkey |-> <<"sta", "chan", "time::endtime">>,
     fields |-> WfdiscFields, rows |-> rows, bad |-> {}]

\* Strings matched by the engine for `field =~ /pattern/`
RegexMatches ==
    [TOL0 |-> {"TOL0"}, BRK |-> {"BRK"}, LHZ |-> {"LHZ"}, LHE |-> {"LHE"}]

\* db.subset('sta=~/{0}/'.format(station))
subset_sta(rows, station) ==
    LET Keep(r) == r.sta \in RegexMatches[station] IN SelectSeq(rows, Keep)

\* db.subset('chan=~/{0}/'.format(channel))
subset_chan(rows, channel) ==
    LET Keep(r) == r.chan \in RegexMatches[channel] IN SelectSeq(rows, Keep)

\* db.subset('endtime > {0} && time < {1}'.format(ts, te)) for floats ts, te
subset_time(rows, tsf, tef) ==
    LET Keep(r) == r.endtime > str_float(tsf) /\ r.time < str_float(tef)
    IN  SelectSeq(rows, Keep)

\* core.py:519-526: the view after the subsets the arguments ask for
filtered(rows, station, channel, starttime, endtime) ==
    LET v1 == IF station # None THEN subset_sta(rows, station.v) ELSE rows
        v2 == IF channel # None THEN subset_chan(v1, channel.v) ELSE v1
    IN  IF starttime # None /\ endtime # None
        THEN subset_time(v2, starttime.timestamp, endtime.timestamp)
        ELSE v2

\* An assert that never fires
nrecs_unchecked(rows) == TRUE

\* `db.nrecs() is not 0`: the test of the assert statement of core.py:530
nrecs_is_not_0(rows) == Len(rows) # 0

\* core.py:511-530, for a Dbptr or a database name
readANTELOPE_call(station, channel, starttime, endtime) ==
    LET view == filtered(wfdisc, station, channel, starttime, endtime)
        both == starttime # None /\ endtime # None
    IN  /\ rcall' = [kind |-> "call", station |-> station, channel |-> channel,
                     starttime |-> starttime, endtime |-> endtime]
        /\ db' = [rows |-> view, record |-> dbALL]
        /\ ts' = IF both THEN PyVal(starttime.timestamp) ELSE starttime
        /\ te' = IF both THEN PyVal(endtime.timestamp) ELSE endtime
        /\ IF nrecs_is_not_0(view)
           THEN rpc' = "loop" /\ rerr' = "none"
           ELSE rpc' = "raised" /\ rerr' = "AssertionError"
        /\ reads' = <<>>
        /\ st' = <<>>
        /\ UNCHANGED wfdisc

\* core.py:536-541: the span asked of read() for record dbr
read_t0(dbr, starttime) ==
    IF py_lt(dbr.items["time"], ts) THEN starttime ELSE UTCDateTime(dbr.items["time"].v)

read_t1(dbr, endtime) ==
    IF py_gt(dbr.items["endtime"], te) THEN endtime ELSE UTCDateTime(dbr.items["endtime"].v)

Max(a, b) == IF a > b THEN a ELSE b
Min(a, b) == IF a < b THEN a ELSE b

\* obspy read(fname, starttime=t0, endtime=t1): the span of the file's data that
\* is returned; a bound that is None does not trim.
read_span(file, t0, t1) ==
    [from |-> IF t0 = None THEN file.from ELSE Max(file.from, t0.timestamp),
     to |-> IF t1 = None THEN file.to ELSE Min(file.to, t1.timestamp)]

\* What the file of db.filename() holds for a row: a file of TOL0 holds the
\* row's segment alone, a file of BRK holds later data as well.
FileTail == [TOL0 |-> 0, BRK |-> 5]

waveform_file(row) == [from |-> row.time, to |-> row.endtime + FileTail[row.sta]]

\* `_st[0].db = dbr`: only the first trace of _st gets the attribute
tag_first(traces, dbr) ==
    [i \in 1..Len(traces) |-> IF i = 1 THEN [traces[i] EXCEPT !.db = dbr] ELSE traces[i]]

NoAttr == [kind |-> "AttributeError"]

\* Loop body of core.py:533-545 for the next record; n is the number of traces
\* that read() and select() leave for the row.
readANTELOPE_row(n) ==
    LET record == IF db.record = dbALL THEN 0 ELSE db.record + 1
        row == db.rows[record + 1]
        dbr == Dbrecord(WfdiscView(db.rows), record).rec
        t0 == read_t0(dbr, rcall.starttime)
        t1 == read_t1(dbr, rcall.endtime)
        file == waveform_file(row)
        span == read_span(file, t0, t1)
        _st == [i \in 1..n |-> [row |-> record, sta |-> dbr.items["sta"].v,
                                chan |-> dbr.items["chan"].v, db |-> NoAttr,
                                from |-> span.from, to |-> span.to]]
    IN  /\ record < Len(db.rows)
        /\ db' = [db EXCEPT !.record = record]
        /\ reads' = Append(reads, [row |-> record, starttime |-> t0, endtime |-> t1,
                                   from |-> span.from, to |-> span.to])
        /\ IF n = 0
           THEN rpc' = "raised" /\ rerr' = "IndexError" /\ st' = st
           ELSE rpc' = "loop" /\ rerr' = "none" /\ st' = st \o tag_first(_st, dbr)
        /\ UNCHANGED <<wfdisc, rcall, ts, te>>

\* core.py:552 `return st`, once the loop has visited every record
readANTELOPE_return ==
    /\ (IF db.record = dbALL THEN 0 ELSE db.record + 1) >= Len(db.rows)
    /\ rpc' = "returned"
    /\ UNCHANGED <<wfdisc, rcall, rerr, db, ts, te, reads, st>>

(***************************************************************************)
(* Inputs of readANTELOPE.  Row and window times are milliseconds.         *)
(***************************************************************************)
SiteChans == {<<"TOL0", "LHZ">>, <<"BRK", "LHE">>}

RowSpans == {<<20, 39>>, <<20, 60>>, <<44, 60>>}

WfdiscRows ==
    {[sta |-> sc[1], chan |-> sc[2], time |-> sp[1], endtime |-> sp[2]] :
        sc \in SiteChans, sp \in RowSpans}

WfdiscTables == UNION {[1..n -> WfdiscRows] : n \in 0..MaxRows}

StationArgs == {None, PyVal("TOL0")}

ChannelArgs == {None, PyVal("LHE")}

TimeArgs == {None} \cup {UTCDateTime(t) : t \in {38, 50}}

ReadIdle ==
    /\ rcall = [kind |-> "none"]
    /\ rpc = "idle"
    /\ rerr = "none"
    /\ db = [rows |-> <<>>, record |-> dbALL]
    /\ ts = None
    /\ te = None
    /\ reads = <<>>
    /\ st = <<>>

(***************************************************************************)
(* Records built from a caller's pointer.                                  *)
(***************************************************************************)
\* `db.record = record` by the caller
set_record(record) ==
    /\ cursor' = record
    /\ UNCHANGED <<table, eager, lazy, viewVars, writeVars, attribVars>>

\* `Dbrecord(db)` by the caller
new_Dbrecord ==
    LET r == Dbrecord(table, cursor)
    IN  /\ eager' = Append(eager, [at |-> cursor, err |-> r.err, rec |-> r.rec,
                                   calls |-> Dbrecord_calls(table, cursor)])
        /\ UNCHANGED <<table, cursor, lazy, viewVars, writeVars, attribVars>>

\* `DbrecordPtr(db)` by the caller
new_DbrecordPtr ==
    LET r == DbrecordPtr(cursor)
    IN  /\ lazy' = Append(lazy, [at |-> cursor, err |-> r.err, rec |-> r.rec,
                                 calls |-> DbrecordPtr_calls(cursor)])
        /\ UNCHANGED <<table, cursor, eager, viewVars, writeVars, attribVars>>

\* `Dbview(db)` by the caller; `dbv` is where the caller's pointer is afterwards
new_Dbview ==
    LET r == Dbview(table, cursor)
    IN  /\ dbview' = [at |-> cursor, err |-> r.err, list |-> r.list, dbv |-> r.dbv]
        /\ cursor' = r.dbv
        /\ UNCHANGED <<table, eager, lazy, dbviewptr, writeVars, attribVars>>

\* `DbviewPtr(db)` by the caller
new_DbviewPtr ==
    LET r == DbviewPtr(table, cursor)
    IN  /\ dbviewptr' = [at |-> cursor, err |-> r.err, list |-> r.list, dbv |-> r.dbv]
        /\ cursor' = r.dbv
        /\ UNCHANGED <<table, eager, lazy, dbview, writeVars, attribVars>>

\* `dbp[field] = value` (or `dbp.field = value`) on the j-th DbrecordPtr of the
\* DbviewPtr
set_item(j, field, value) ==
    LET r == __setattr__(table, dbviewptr.list[j], field, value)
    IN  /\ table' = r.tbl
        /\ dbviewptr' = [dbviewptr EXCEPT !.list[j] = r.rec]
        /\ wrote' = [record |-> dbviewptr.list[j].Ptr, field |-> field, value |-> value,
                     err |-> r.err]
        /\ UNCHANGED <<cursor, eager, lazy, dbview, attribVars>>

\* `iter(dbptr)` at the head of a `for dbr in dbptr` loop: __iter__ returns
\* the object itself
iter ==
    /\ trav' = Append(trav, [yielded |-> <<>>, status |-> "running"])
    /\ UNCHANGED <<table, recordPtrs, viewVars, writeVars, dbptr, item>>

\* The loop of traversal t asks for its next item
loop_next(t) ==
    LET r == next(dbptr, table)
    IN  /\ dbptr' = r.self
        /\ trav' = [trav EXCEPT ![t] =
                        IF r.err = "StopIteration"
                        THEN [@ EXCEPT !.status = "exhausted"]
                        ELSE IF r.err = "none"
                        THEN [@ EXCEPT !.yielded = Append(@, r.rec.Ptr)]
                        ELSE [@ EXCEPT !.status = r.err]]
        /\ UNCHANGED <<table, recordPtrs, viewVars, writeVars, item>>

\* The loop of traversal t is left by `break`
loop_break(t) ==
    /\ trav' = [trav EXCEPT ![t].status = "abandoned"]
    /\ UNCHANGED <<table, recordPtrs, viewVars, writeVars, dbptr, item>>

\* `dbptr[index]` by the caller
get_item(index) ==
    LET r == __getitem__(dbptr, table, index)
    IN  /\ dbptr' = r.self
        /\ item' = [index |-> index, err |-> r.err, rec |-> r.rec]
        /\ UNCHANGED <<table, recordPtrs, viewVars, writeVars, trav>>

SiteRows == {[sta |-> "TOL0", time |-> 20], [sta |-> "BRK", time |-> 44]}

SiteTables ==
    {[name |-> "site", pkey |-> <<"sta", "time">>, fields |-> <<"sta", "time">>,
      rows |-> rows, bad |-> bad] :
        rows \in UNION {[1..n -> SiteRows] : n \in 0..MaxRows},
        bad \in {b \in SUBSET ((0..(MaxRows - 1)) \X {"sta", "time"}) :
                    Cardinality(b) <= MaxBad}}

\* The values written to a field
WriteValues == [f \in {"sta", "time"} |-> {r[f] : r \in SiteRows}]

RecordIdle ==
    /\ table = [name |-> "site", pkey |-> <<"sta", "time">>, fields |-> <<"sta", "time">>,
                rows |-> <<>>, bad |-> {}]
    /\ cursor = dbALL
    /\ eager = <<>>
    /\ lazy = <<>>
    /\ dbview = NoView
    /\ dbviewptr = NoView
    /\ wrote = NoWrite
    /\ dbptr = AttribDbptr(dbALL)
    /\ trav = <<>>
    /\ item = NoItem

(***************************************************************************)
(* Specifications                                                          *)
(***************************************************************************)
\* No database in the specifications of the export
NoDatabase == wfdisc = <<>> /\ ReadIdle /\ RecordIdle

Init == ExportInit /\ MapInit /\ NoDatabase

NextExport ==
    /\ wpc = "idle"
    /\ \E catalog \in Catalogs, filename \in Filenames, namespace \in ExportNamespaces,
          attributes \in ExportBags, writeOk \in BOOLEAN :
        /\ writeNamespaceQuakeML(catalog, filename, namespace, attributes, writeOk)
        /\ UNCHANGED mapVars
        /\ UNCHANGED <<readVars, recordVars, viewVars, writeVars, attribVars>>

SpecExport == Init /\ [][NextExport]_vars

NextMap ==
    /\ mcall.kind = "none"
    /\ \E ns \in MapNamespaces, attributes \in MapBags :
        /\ map_prefix_call(ns, attributes)
        /\ UNCHANGED exportVars
        /\ UNCHANGED <<readVars, recordVars, viewVars, writeVars, attribVars>>

SpecMap == Init /\ [][NextMap]_vars

InitRead ==
    /\ ExportInit
    /\ MapInit
    /\ wfdisc \in WfdiscTables
    /\ ReadIdle
    /\ RecordIdle

ReadCall ==
    /\ rpc = "idle"
    /\ \E station \in StationArgs, channel \in ChannelArgs,
          starttime \in TimeArgs, endtime \in TimeArgs :
        readANTELOPE_call(station, channel, starttime, endtime)
    /\ UNCHANGED <<exportVars, mapVars, recordVars, viewVars, writeVars, attribVars>>

ReadRow ==
    /\ rpc = "loop"
    /\ \E n \in 0..MaxTraces : readANTELOPE_row(n)
    /\ UNCHANGED <<exportVars, mapVars, recordVars, viewVars, writeVars, attribVars>>

ReadReturn ==
    /\ rpc = "loop"
    /\ readANTELOPE_return
    /\ UNCHANGED <<exportVars, mapVars, recordVars, viewVars, writeVars, attribVars>>

NextRead == ReadCall \/ ReadRow \/ ReadReturn

SpecRead == InitRead /\ [][NextRead]_vars

InitRecord ==
    /\ ExportInit
    /\ MapInit
    /\ wfdisc = <<>> /\ ReadIdle
    /\ table \in {t \in SiteTables : \A b \in t.bad : b[1] < Len(t.rows)}
    /\ cursor = dbALL
    /\ eager = <<>>
    /\ lazy = <<>>
    /\ dbview = NoView
    /\ dbviewptr = NoView
    /\ wrote = NoWrite
    /\ dbptr = AttribDbptr(dbALL)
    /\ trav = <<>>
    /\ item = NoItem

SetRecord ==
    /\ \E record \in (0..(Len(table.rows) - 1)) \cup {dbALL} :
        /\ record # cursor
        /\ set_record(record)
    /\ UNCHANGED <<exportVars, mapVars, readVars>>

NewDbrecord ==
    /\ Len(eager) + Len(lazy) < MaxRecords
    /\ new_Dbrecord
    /\ UNCHANGED <<exportVars, mapVars, readVars>>

NewDbrecordPtr ==
    /\ Len(eager) + Len(lazy) < MaxRecords
    /\ new_DbrecordPtr
    /\ UNCHANGED <<exportVars, mapVars, readVars>>

NextRecord == SetRecord \/ NewDbrecord \/ NewDbrecordPtr

SpecRecord == InitRecord /\ [][NextRecord]_vars

NewDbview ==
    /\ new_Dbview
    /\ UNCHANGED <<exportVars, mapVars, readVars>>

NewDbviewPtr ==
    /\ new_DbviewPtr
    /\ UNCHANGED <<exportVars, mapVars, readVars>>

\* The records written through come from a DbviewPtr, the records compared
\* with them from a Dbview
InitWrite ==
    /\ InitRecord
    /\ \A b \in table.bad : b[1] = 0

SetItem ==
    /\ dbviewptr # NoView
    /\ \E j \in 1..Len(dbviewptr.list) :
        \E field \in Range(table.fields) : \E value \in WriteValues[field] :
            set_item(j, field, value)
    /\ UNCHANGED <<exportVars, mapVars, readVars>>

NextWrite == NewDbview \/ NewDbviewPtr \/ SetItem

SpecWrite == InitWrite /\ [][NextWrite]_vars

\* An AttribDbptr over a table every field of which can be read
InitAttrib ==
    /\ InitRecord
    /\ table.bad = {}

Iter ==
    /\ Len(trav) < MaxTraversals
    /\ iter
    /\ UNCHANGED <<exportVars, mapVars, readVars>>

LoopNext ==
    /\ \E t \in 1..Len(trav) :
        /\ trav[t].status = "running"
        /\ loop_next(t)
    /\ UNCHANGED <<exportVars, mapVars, readVars>>

LoopBreak ==
    /\ \E t \in 1..Len(trav) :
        /\ trav[t].status = "running"
        /\ loop_break(t)
    /\ UNCHANGED <<exportVars, mapVars, readVars>>

GetItem ==
    /\ \E index \in (-1)..nrecs(table) : get_item(index)
    /\ UNCHANGED <<exportVars, mapVars, readVars>>

NextAttrib == Iter \/ LoopNext \/ LoopBreak \/ GetItem

SpecAttrib == InitAttrib /\ [][NextAttrib]_vars

NextView == SetRecord \/ NewDbview \/ NewDbviewPtr

SpecView == InitRecord /\ [][NextView]_vars

(***************************************************************************)
(* Properties of the export                                                *)
(***************************************************************************)
Called == wpc # "idle"

\* C1: a destination that is an already-open writable sink is never closed by
\* writeNamespaceQuakeML: after the call the sink is still open.
C1_SinkLeftOpen ==
    (Called /\ ~opens_file(wcall.filename)) => wsink = "open"

\* C2: a file opened by writeNamespaceQuakeML from a path string is closed on
\* every exit path, also when dumps or write raised.
C2_OpenedFileClosedOnExit ==
    (Called /\ opens_file(wcall.filename)) => wfile = "closed"

\* Some prefix listed in prefix_map is not a key of nsmap.
MissingPrefix(ns) == \E p \in DOMAIN ns.prefix_map : p \notin DOMAIN ns.nsmap

\* C3: when some prefix of prefix_map is missing from nsmap, the export fails
\* with a configuration error before any element is built, whatever the bag.
C3_MissingPrefixFails ==
    (Called /\ wcall.namespace.kind = "XMLNamespace" /\ MissingPrefix(wcall.namespace))
        => (werr = "KeyError" /\ wbuilt = 0 /\ xml_doc = NoDoc)

Owners(ns, a) == {p \in DOMAIN ns.prefix_map : a \in ns.prefix_map[p]}

\* The key the claim expects for bag name a: '{nsmap[p]}a' for its owner p,
\* the bare name when no prefix owns it.
ExpectedKey(ns, a) ==
    IF Owners(ns, a) = {} THEN a
    ELSE LET p == CHOOSE x \in Owners(ns, a) : TRUE
         IN  "{" \o ns.nsmap[p] \o "}" \o a

\* Every bag name has at most one owner, and that owner is a key of nsmap.
OwnedOnce(ns, d) ==
    \A a \in DOMAIN d :
        /\ Cardinality(Owners(ns, a)) <= 1
        /\ Owners(ns, a) \subseteq DOMAIN ns.nsmap

\* One entry per input entry, under the expected key, with the same value.
MappedEntryForEntry(ns, d, out) ==
    /\ out.err = "none"
    /\ Cardinality(DOMAIN out.d) = Cardinality(DOMAIN d)
    /\ \A a \in DOMAIN d :
        /\ ExpectedKey(ns, a) \in DOMAIN out.d
        /\ out.d[ExpectedKey(ns, a)] = d[a]

MapCalled == mcall.kind = "call" /\ mcall.attributes.kind = "dict"

\* C4 as stated: for every bag whose names have at most one owner, present in
\* nsmap, map_prefix returns one entry per input entry with the same values,
\* owned names qualified and the others bare.
C4_EntryForEntry ==
    (MapCalled /\ OwnedOnce(mcall.ns, mcall.attributes.d))
        => MappedEntryForEntry(mcall.ns, mcall.attributes.d, mout)

\* No two names of the bag have the same expected key.
NoKeyClash(ns, d) ==
    \A a, b \in DOMAIN d : a # b => ExpectedKey(ns, a) # ExpectedKey(ns, b)

\* C4 amended: the same, for bags in which no name is already the qualified
\* form of another name of the bag.
C4_EntryForEntryNoClash ==
    (MapCalled /\ OwnedOnce(mcall.ns, mcall.attributes.d)
               /\ NoKeyClash(mcall.ns, mcall.attributes.d))
        => MappedEntryForEntry(mcall.ns, mcall.attributes.d, mout)

\* A call that qualified one name and passed another through bare.
C4_Witness ==
    /\ MapCalled
    /\ OwnedOnce(mcall.ns, mcall.attributes.d)
    /\ NoKeyClash(mcall.ns, mcall.attributes.d)
    /\ \E a, b \in DOMAIN mcall.attributes.d :
        /\ Owners(mcall.ns, a) # {}
        /\ Owners(mcall.ns, b) = {}
        /\ mcall.attributes.d[a] # mcall.attributes.d[b]
    /\ mout.err = "none"

\* All names of the bag are owned by a prefix that nsmap knows.
AllOwnedKnown(ns, d) ==
    \A a \in DOMAIN d : Owners(ns, a) \cap DOMAIN ns.nsmap # {}

Rendered ==
    /\ Called
    /\ xml_doc # NoDoc
    /\ wcall.namespace.kind = "XMLNamespace"
    /\ wcall.attributes.kind = "dict"
    /\ AllOwnedKnown(wcall.namespace, wcall.attributes.d)

TagCount(els, tag) == Cardinality({i \in 1..Len(els) : els[i].tag = tag})

RECURSIVE FocalCount(_)
FocalCount(events) ==
    IF events = <<>> THEN 0
    ELSE Len(Head(events).focal_mechanisms) + FocalCount(Tail(events))

\* C5: in the rendered document every event and every focal-mechanism element
\* carries each attribute of the bag, namespace-qualified, with its value, and
\* no element of another kind carries any of them; there is one event element
\* per event and one focal-mechanism element per focal mechanism.
C5_AttributesOnEventAndFocalOnly ==
    Rendered =>
        LET ns == wcall.namespace
            d == wcall.attributes.d
            els == xml_doc.els
        IN  /\ TagCount(els, "event") = Len(wcall.catalog.events)
            /\ TagCount(els, "focalMechanism") = FocalCount(wcall.catalog.events)
            /\ \A i \in 1..Len(els) : \A a \in DOMAIN d :
                 IF els[i].tag \in {"event", "focalMechanism"}
                 THEN /\ ExpectedKey(ns, a) \in DOMAIN els[i].attrib
                      /\ els[i].attrib[ExpectedKey(ns, a)] = d[a]
                 ELSE /\ ExpectedKey(ns, a) \notin DOMAIN els[i].attrib
                      /\ a \notin DOMAIN els[i].attrib

\* A rendered catalog of two events, with children of other kinds and a focal
\* mechanism, under a bag of two owned names.
C5_Witness ==
    /\ Rendered
    /\ Cardinality(DOMAIN wcall.attributes.d) = 2
    /\ Len(wcall.catalog.events) = 2
    /\ wcall.catalog.nother > 0
    /\ TagCount(xml_doc.els, "focalMechanism") > 0
    /\ TagCount(xml_doc.els, "pick") > 0

(***************************************************************************)
(* Properties of readANTELOPE                                              *)
(***************************************************************************)
ReadCalled == rcall.kind = "call"

BothTimes == rcall.starttime # None /\ rcall.endtime # None

NoTimes == rcall.starttime = None /\ rcall.endtime = None

\* C6: with exactly one of starttime and endtime supplied, readANTELOPE fails
\* with a parameter error, and neither filters rows nor loads a waveform.
C6_OneTimeRejected ==
    (ReadCalled /\ ~BothTimes /\ ~NoTimes)
        => (rpc = "raised" /\ rerr \in {"ValueError", "TypeError"} /\ reads = <<>>)

\* The station and channel filters of the call, as one test of a row
KeptBySiteChan(r) ==
    /\ rcall.station # None => r.sta \in RegexMatches[rcall.station.v]
    /\ rcall.channel # None => r.chan \in RegexMatches[rcall.channel.v]

\* The rows that the engine keeps for the call
Remaining ==
    LET Keep(r) ==
            /\ KeptBySiteChan(r)
            /\ BothTimes => /\ r.endtime > str_float(rcall.starttime.timestamp)
                            /\ r.time < str_float(rcall.endtime.timestamp)
    IN  SelectSeq(wfdisc, Keep)

\* C7: when no row remains after the station, channel and time filters,
\* readANTELOPE fails with the empty-result error, before any waveform file is
\* loaded and without a partial collection.
C7_EmptyViewFails ==
    (ReadCalled /\ Remaining = <<>>)
        => (rpc = "raised" /\ rerr = "AssertionError" /\ reads = <<>> /\ st = <<>>)

\* A call with starttime > endtime on a table with rows, none of which passes
\* the overlap test, that failed.
C7_Witness ==
    /\ ReadCalled
    /\ BothTimes
    /\ rcall.starttime.timestamp > rcall.endtime.timestamp
    /\ rcall.station = None /\ rcall.channel = None
    /\ wfdisc # <<>>
    /\ Remaining = <<>>
    /\ rerr = "AssertionError"

\* C8: the time filter keeps a row exactly when its endtime is greater than
\* the window start and its time less than the window end; every kept row is
\* read from max(row.time, starttime) to min(row.endtime, endtime); with no
\* window the read span is the row's own span.
C8_KeepAndTrim ==
    ReadCalled =>
        /\ BothTimes =>
            LET Keep(r) ==
                    /\ KeptBySiteChan(r)
                    /\ r.endtime > rcall.starttime.timestamp
                    /\ r.time < rcall.endtime.timestamp
            IN  db.rows = SelectSeq(wfdisc, Keep)
        /\ \A k \in 1..Len(reads) :
            LET row == db.rows[reads[k].row + 1]
            IN  /\ BothTimes =>
                    /\ reads[k].from = Max(row.time, rcall.starttime.timestamp)
                    /\ reads[k].to = Min(row.endtime, rcall.endtime.timestamp)
                /\ NoTimes =>
                    /\ reads[k].from = row.time
                    /\ reads[k].to = row.endtime

\* C9: every trace of the returned collection carries as db the eager record
\* of the row it was loaded from, and the traces are in row order.
C9_TracesTaggedInRowOrder ==
    rpc = "returned" =>
        \A i \in 1..Len(st) :
            /\ st[i].db = Dbrecord(WfdiscView(db.rows), st[i].row).rec
            /\ i > 1 => st[i - 1].row <= st[i].row

(***************************************************************************)
(* Properties of the records                                               *)
(***************************************************************************)
\* C10: Dbrecord(db) at a concrete row never raises for a field the engine
\* cannot extract: every declared field is a key of the record, holding the
\* extracted value, or None when the engine cannot extract it.
C10_EveryFieldOrNone ==
    \A k \in 1..Len(eager) :
        LET e == eager[k]
        IN  e.at \in 0..(Len(table.rows) - 1) =>
                /\ e.err = "none"
                /\ DOMAIN e.rec.items = Range(table.fields)
                /\ \A f \in Range(table.fields) :
                     e.rec.items[f] = IF <<e.at, f>> \in table.bad
                                      THEN None
                                      ELSE PyVal(table.rows[e.at + 1][f])

\* A record built at a row with one field the engine cannot extract and one
\* it can.
C10_Witness ==
    \E k \in 1..Len(eager) :
        /\ eager[k].err = "none"
        /\ \E f, g \in Range(table.fields) :
            /\ <<eager[k].at, f>> \in table.bad
            /\ eager[k].rec.items[f] = None
            /\ eager[k].rec.items[g] # None

\* C11: Dbrecord(db) and DbrecordPtr(db) for a pointer whose record number is
\* dbALL raise ValueError, and no query or getv was issued to the engine
\* before the error.
C11_AllRecordsRejectedFirst ==
    /\ \A k \in 1..Len(eager) :
         eager[k].at = dbALL => eager[k].err = "ValueError" /\ eager[k].calls = <<>>
    /\ \A k \in 1..Len(lazy) :
         lazy[k].at = dbALL => lazy[k].err = "ValueError" /\ lazy[k].calls = <<>>

\* Both constructors were called with a pointer at dbALL.
C11_Witness ==
    /\ \E k \in 1..Len(eager) : eager[k].at = dbALL /\ eager[k].err = "ValueError"
    /\ \E k \in 1..Len(lazy) : lazy[k].at = dbALL /\ lazy[k].err = "ValueError"

\* What a record built at row `at` holds or reads for field f
RowValue(at, f) ==
    IF <<at, f>> \in table.bad THEN None ELSE PyVal(table.rows[at + 1][f])

\* C12: Dbview(db) and DbviewPtr(db) give a list as long as the view whose
\* element i is the record of row i; the caller's pointer is where it was;
\* every element of DbviewPtr is at its own row once the list is built.
C12_ViewElementPerRow ==
    /\ dbview # NoView =>
         /\ dbview.err = "none"
         /\ dbview.dbv = dbview.at
         /\ Len(dbview.list) = Len(table.rows)
         /\ \A i \in 1..Len(dbview.list) :
              /\ dbview.list[i].Ptr = i - 1
              /\ \A f \in Range(table.fields) :
                   dbview.list[i].items[f] = RowValue(i - 1, f)
    /\ dbviewptr # NoView =>
         /\ dbviewptr.err = "none"
         /\ dbviewptr.dbv = dbviewptr.at
         /\ Len(dbviewptr.list) = Len(table.rows)
         /\ \A i \in 1..Len(dbviewptr.list) :
              /\ dbviewptr.list[i].Ptr = i - 1
              /\ \A f \in Range(table.fields) :
                   <<i - 1, f>> \notin table.bad =>
                       __getattr__(table, dbviewptr.list[i], f).val = RowValue(i - 1, f)

\* Both lists were built over a view of two rows or more, from a pointer that
\* was not at the last row.
C12_Witness ==
    /\ dbview # NoView /\ dbviewptr # NoView
    /\ Len(dbview.list) >= 2 /\ Len(dbviewptr.list) >= 2
    /\ dbview.at # Len(table.rows) - 1
    /\ dbviewptr.at # Len(table.rows) - 1
    /\ dbviewptr.list[1].Ptr # dbviewptr.list[2].Ptr

\* C13: a Dbrecord and a DbrecordPtr built from the same pointer position give
\* the same result for reading every field of the row, also a field the
\* engine cannot extract.
C13_EagerLazyAgree ==
    \A k \in 1..Len(eager), j \in 1..Len(lazy) :
        (eager[k].err = "none" /\ lazy[j].err = "none" /\ eager[k].at = lazy[j].at) =>
            \A f \in Range(table.fields) :
                Dbrecord_getitem(eager[k].rec, f) = __getattr__(table, lazy[j].rec, f)

\* Every DbrecordPtr at the row of the last write reads the value written
LazyReadsLastWrite ==
    (wrote # NoWrite /\ wrote.err = "none") =>
        \A j \in 1..Len(dbviewptr.list) :
            dbviewptr.list[j].Ptr = wrote.record =>
                __getattr__(table, dbviewptr.list[j], wrote.field)
                    = [err |-> "none", val |-> PyVal(wrote.value)]

\* No DbrecordPtr holds a field value
LazyStoresNothing ==
    dbviewptr # NoView =>
        \A j \in 1..Len(dbviewptr.list) : dbviewptr.list[j].items = EmptyDict

\* A write changes no Dbrecord built earlier
EagerKept ==
    wrote' # wrote => dbview' = dbview

\* C14: whatever is written through DbrecordPtr objects, a Dbrecord built
\* earlier keeps the values it was built with, every DbrecordPtr at the row
\* written reads the value written last, and no DbrecordPtr holds a field
\* value of its own.
C14_SnapshotAndLiveReads ==
    /\ [](LazyReadsLastWrite /\ LazyStoresNothing)
    /\ [][EagerKept]_vars

\* A Dbrecord and a DbrecordPtr were built at one row, then a field of the row
\* was given another value through the DbrecordPtr: the Dbrecord holds the
\* old value, the DbrecordPtr reads the new one.
C14_Witness ==
    /\ wrote # NoWrite /\ wrote.err = "none"
    /\ dbview # NoView /\ dbviewptr # NoView
    /\ \E k \in 1..Len(dbview.list), j \in 1..Len(dbviewptr.list) :
        /\ dbview.list[k].Ptr = wrote.record
        /\ dbviewptr.list[j].Ptr = wrote.record
        /\ dbview.list[k].items[wrote.field] # PyVal(wrote.value)
        /\ dbview.list[k].items[wrote.field] # None
        /\ __getattr__(table, dbviewptr.list[j], wrote.field).val = PyVal(wrote.value)

\* Traversal t has yielded rows 0, 1, 2, ... in order, and all of them if it
\* was exhausted
InOrder(t) ==
    /\ Len(trav[t].yielded) <= nrecs(table)
    /\ \A i \in 1..Len(trav[t].yielded) : trav[t].yielded[i] = i - 1
    /\ trav[t].status = "exhausted" => Len(trav[t].yielded) = nrecs(table)
    /\ trav[t].status \in {"running", "exhausted", "abandoned"}

\* The last indexed access gave the record of the row asked for, or ValueError
\* and no record for an index that is not a row
ItemOfIndex ==
    item # NoItem =>
        IF item.index \in 0..(nrecs(table) - 1)
        THEN item.err = "none" /\ item.rec.Ptr = item.index
        ELSE item.err = "ValueError" /\ item.rec = None

\* An indexed access leaves the stored pointer, the position of the iteration
\* and the traversals alone
ItemMovesNothing ==
    item' # item => dbptr' = dbptr /\ trav' = trav

\* C15: dbptr[i] gives the record of row i from a pointer of its own and
\* changes neither dbptr.Ptr nor dbptr._rptr, so one traversal interleaved
\* with indexed accesses yields rows 0..len-1 in order; an index that is not
\* a row raises ValueError and gives no record.
C15_IndexedAccessApart ==
    /\ [](ItemOfIndex /\ (Len(trav) = 1 => InOrder(1)))
    /\ [][ItemMovesNothing]_vars

\* One traversal was exhausted over two rows or more with indexed accesses
\* made meanwhile, the last of them to a row behind the iteration.
C15_Witness ==
    /\ Len(trav) = 1 /\ trav[1].status = "exhausted"
    /\ Len(trav[1].yielded) >= 2
    /\ item # NoItem /\ item.err = "none"
    /\ item.index = 0

\* C16: every traversal of an AttribDbptr yields rows 0..len-1 in order, once
\* each, whatever traversals of the same object were exhausted, abandoned or
\* are still running.
C16_EveryTraversalInOrder ==
    \A t \in 1..Len(trav) : InOrder(t)

IsEventEl(el) == el.tag = "event"

IsFocalEl(el) == el.tag = "focalMechanism"

\* The identifiers of the focal mechanisms of the catalog, in document order
FocalIds(events) == Flatten([i \in 1..Len(events) |-> events[i].focal_mechanisms])

\* C17: whatever the attributes bag, also one with a name owned by no prefix,
\* the publicID of every event element and of every focal-mechanism element
\* of the rendered document is the identifier of the event or focal mechanism
\* it was built from.
C17_PublicIDKept ==
    (Called /\ xml_doc # NoDoc) =>
        LET evs == SelectSeq(xml_doc.els, IsEventEl)
            fms == SelectSeq(xml_doc.els, IsFocalEl)
            events == wcall.catalog.events
            fids == FocalIds(events)
        IN  /\ Len(evs) = Len(events)
            /\ \A i \in 1..Len(evs) : evs[i].attrib.publicID = _id(events[i].resource_id)
            /\ Len(fms) = Len(fids)
            /\ \A i \in 1..Len(fms) : fms[i].attrib.publicID = _id(fids[i])

====
